---------------------------- MODULE Spec2Model ----------------------------
(***************************************************************************)
(* A model of zoopla_fetcher: the text-numeric extractor and the floorplan *)
(* measurement extractor (floor_plan_utils.py), the listing detail         *)
(* extractor (listing_details.py) and the query orchestrator               *)
(* (listings_query.py).                                                    *)
(*                                                                         *)
(* Texts are sequences of one-character strings.  A float is the exact     *)
(* rational [n |-> numerator, d |-> denominator] its decimal text denotes. *)
(* A call that may raise returns [exc |-> "none", val |-> v] or            *)
(* [exc |-> <exception name>, val |-> NoVal].                              *)
(***************************************************************************)
EXTENDS Integers, Sequences, FiniteSets, TLC

VARIABLES
    inp_str,        \* numbers_from_string: its argument
    float_numbers,  \* numbers_from_string: what the call produced (Pending before)
    floorplan,      \* the image behind floorplan_url: how its download and OCR go
    sq_footage,     \* extract_total_sq_footage_from_floorplan: what the call produced
    tmp_dir,        \* the names of the files in the directory of temporary files
    tmp_before,     \* tmp_dir as it was when extract_text_from_image was called
    tmp_f,          \* extract_text_from_image: the name of its tmp_f, None before
    text_pc,        \* extract_text_from_image: where the call is
    image_text,     \* extract_text_from_image: what the call produces
    removed,        \* the names os.remove has been called with by the call
    price_history,  \* the price-history API's response for the listing
    summarised,     \* extract_price_change_history: its summarised argument
    history,        \* extract_price_change_history: what the call produced
    listing_page,   \* the listing page a ListingDetails is constructed from
    property_data_series,  \* ListingDetails(url).extract_all(): what the calls produced
    site,           \* the portal: its redirect, result count, result pages and scripts
    pc,             \* where the query run is
    raised,         \* the exception that ended the run, None when there is none
    query_url,      \* ListingsQuery._query_url
    total_results,  \* get_all_listing_urls: total_results
    total_pages,    \* get_all_listing_urls: total_pages
    page_number,    \* get_all_listing_urls: the loop's page_number
    page_requests,  \* the page numbers _get_page_property_urls has requested, in order
    listing_urls,   \* ListingsQuery.listing_urls
    key_requests,   \* the urls extract_api_key has been called with, in order
    graphql_api_key,  \* ListingsQuery.graphql_api_key
    log,            \* the records handed to _logger, in order
    threads,        \* the threads argument of the running extract_all_properties_* call
    mode,           \* which of the two it is: "details" or "price_history"
    tasks,          \* the pool's task per listing url: its state and its result
    all_results,    \* what list(pool.imap(...)) has collected so far
    table           \* what the extract_all_properties_* call produced

textVars == <<inp_str, float_numbers>>

imageVars == <<tmp_dir, tmp_before, tmp_f, text_pc, image_text, removed>>

floorplanVars == <<floorplan, sq_footage, imageVars>>

historyVars == <<price_history, summarised, history>>

listingVars == <<listing_page, property_data_series>>

setupVars == <<site, query_url, total_results, total_pages, page_number, page_requests,
               listing_urls, key_requests, graphql_api_key>>

poolVars == <<threads, mode, tasks, all_results, table>>

runVars == <<setupVars, poolVars, pc, raised, log>>

vars == <<inp_str, float_numbers, floorplan, sq_footage, tmp_dir, tmp_before, tmp_f,
          text_pc, image_text, removed, price_history, summarised,
          history, listing_page, property_data_series, site, pc, raised, query_url,
          total_results, total_pages, page_number, page_requests, listing_urls,
          key_requests, graphql_api_key, log, threads, mode, tasks, all_results, table>>

-----------------------------------------------------------------------------
(* Bounds of the model *)

\* Longest text enumerated exhaustively for numbers_from_string.
MaxLen == 5

\* Most fragments an OCR text is put together from.
MaxChunks == 2

\* Most priceChanges events of a price history.
MaxChanges == 2

\* Most points of interest of a listing.
MaxPois == 2

\* Most floorplan images of a listing.
MaxImages == 2

\* Most listing anchors of one results page.
MaxAnchors == 3

\* Most worker threads of the pool.
MaxThreads == 2

-----------------------------------------------------------------------------
(* Generic helpers *)

NoVal == "NoVal"

Ok(v) == [exc |-> "none", val |-> v]

Raise(e) == [exc |-> e, val |-> NoVal]

Pending == [exc |-> "pending", val |-> NoVal]

\* All sequences over S of length at most n.
SeqsUpTo(S, n) == UNION {[1..k -> S] : k \in 0..n}

RECURSIVE Flatten(_)
Flatten(ss) == IF ss = <<>> THEN <<>> ELSE Head(ss) \o Flatten(Tail(ss))

RECURSIVE Pow10(_)
Pow10(k) == IF k = 0 THEN 1 ELSE 10 * Pow10(k - 1)

RECURSIVE GCD(_, _)
GCD(a, b) == IF b = 0 THEN a ELSE GCD(b, a % b)

Abs(x) == IF x < 0 THEN -x ELSE x

Reduced(n, d, g) ==
    IF d < 0 THEN [n |-> -(n \div g), d |-> -(d \div g)]
    ELSE [n |-> n \div g, d |-> d \div g]

\* A rational in lowest terms with a positive denominator.
Rat(n, d) == Reduced(n, d, GCD(Abs(n), Abs(d)))

\* The result of a step and of the steps after it: the first to raise decides.
Cons(r, rest) ==
    IF r.exc # "none" THEN Raise(r.exc)
    ELSE IF rest.exc # "none" THEN rest
    ELSE Ok(<<r.val>> \o rest.val)

ConsAll(r, rest) ==
    IF r.exc # "none" THEN Raise(r.exc)
    ELSE IF rest.exc # "none" THEN rest
    ELSE Ok(r.val \o rest.val)

RatLess(a, b) == a.n * b.d < b.n * a.d

RatEq(a, b) == a.n * b.d = b.n * a.d

\* np.nan: the "not available" measurement.
NaN == [n |-> 0, d |-> 0]

IsNaN(x) == x.d = 0 /\ x.n = 0

-----------------------------------------------------------------------------
(* floor_plan_utils.numbers_from_string *)

Digits == {"0", "1", "2", "3", "4", "5", "6", "7", "8", "9"}

DigitVal(c) ==
    CASE c = "0" -> 0 [] c = "1" -> 1 [] c = "2" -> 2 [] c = "3" -> 3
      [] c = "4" -> 4 [] c = "5" -> 5 [] c = "6" -> 6 [] c = "7" -> 7
      [] c = "8" -> 8 [] c = "9" -> 9

\* inp_str.replace(",", "")
RemoveCommas(s) == SelectSeq(s, LAMBDA c : c # ",")

\* The end (exclusive) of the match of [\d]{1,}[\.\d]{0,}[\d]{0,} starting at i,
\* where s[i] is a digit: the greedy classes take the whole run of digits and dots.
RECURSIVE NumberMatchEnd(_, _)
NumberMatchEnd(s, j) ==
    IF j <= Len(s) /\ s[j] \in Digits \cup {"."}
    THEN NumberMatchEnd(s, j + 1)
    ELSE j

\* re.findall(pattern, s): the non-overlapping matches, leftmost first.
RECURSIVE FindAllNumbers(_, _)
FindAllNumbers(s, i) ==
    IF i > Len(s) THEN <<>>
    ELSE IF s[i] \in Digits
         THEN LET e == NumberMatchEnd(s, i + 1)
              IN  <<SubSeq(s, i, e - 1)>> \o FindAllNumbers(s, e)
         ELSE FindAllNumbers(s, i + 1)

CountDots(tok) == Len(SelectSeq(tok, LAMBDA c : c = "."))

\* bool(re.search(r'\d', number))
HasDigit(tok) == \E k \in 1..Len(tok) : tok[k] \in Digits

RECURSIVE DigitsValue(_)
DigitsValue(ds) ==
    IF ds = <<>> THEN 0
    ELSE 10 * DigitsValue(SubSeq(ds, 1, Len(ds) - 1)) + DigitVal(ds[Len(ds)])

\* The position of the first "." of tok, Len(tok) + 1 when it has none.
RECURSIVE FirstDot(_, _)
FirstDot(tok, k) ==
    IF k > Len(tok) \/ tok[k] = "." THEN k ELSE FirstDot(tok, k + 1)

\* float(number): Python accepts digits with at most one ".", also a trailing one
\* ("5." is 5.0), and raises ValueError on anything else ("1.2.3", "3..4").
PyFloat(tok) ==
    IF CountDots(tok) > 1 \/ ~HasDigit(tok)
    THEN Raise("ValueError")
    ELSE LET ds   == SelectSeq(tok, LAMBDA c : c # ".")
             frac == Len(tok) - FirstDot(tok, 1)
             fd   == IF frac < 0 THEN 0 ELSE frac
         IN  Ok(Rat(DigitsValue(ds), Pow10(fd)))

\* The loop of numbers_from_string: the first float() that raises ends the call.
RECURSIVE FloatAll(_)
FloatAll(toks) ==
    IF toks = <<>> THEN Ok(<<>>)
    ELSE IF ~HasDigit(Head(toks)) THEN FloatAll(Tail(toks))
    ELSE Cons(PyFloat(Head(toks)), FloatAll(Tail(toks)))

numbers_from_string(s) == FloatAll(FindAllNumbers(RemoveCommas(s), 1))

-----------------------------------------------------------------------------
(* floor_plan_utils.extract_text_from_image and
   floor_plan_utils.extract_total_sq_footage_from_floorplan *)

\* str.lower() on the letters the model's texts use.
LowerChar(c) ==
    CASE c = "F" -> "f" [] c = "T" -> "t" [] c = "S" -> "s" [] c = "Q" -> "q"
      [] c = "E" -> "e" [] OTHER -> c

Lower(s) == [k \in 1..Len(s) |-> LowerChar(s[k])]

\* An image is [download |-> "ok" | "fail", ocr |-> "ok" | "fail", text |-> its text]:
\* requests.get raises before the temporary file exists, textract.process raises
\* inside the try block, and the finally clause re-raises after os.remove.
\* os.remove left out.
os_remove_skipped(dir, name) == dir

\* os.remove(name): the directory entry goes, also that of a file still open.
os_remove(dir, name) == dir \ {name}

extract_text_from_image(img) ==
    IF img.download = "fail" THEN Raise("ConnectionError")
    ELSE IF img.ocr = "fail" THEN Raise("ShellError")
    ELSE Ok(Lower(img.text))

\* [0-9\.\,]
MeasureClass == Digits \cup {".", ","}

\* [sq|\.|\s|square|s@|,]: a character class, so any of these characters.
UnitClass == {"s", "q", "|", ".", " ", "u", "a", "r", "e", "@", ","}

\* The end (exclusive) of the run of characters of S starting at j.
RECURSIVE RunEnd(_, _, _)
RunEnd(s, j, S) ==
    IF j <= Len(s) /\ s[j] \in S THEN RunEnd(s, j + 1, S) ELSE j

StartsWith(s, j, lit) ==
    /\ j + Len(lit) - 1 <= Len(s)
    /\ SubSeq(s, j, j + Len(lit) - 1) = lit

\* The end (exclusive) of the match of sq_feet_pattern starting at i, 0 when there
\* is none.  Neither class holds "f", so the two classes take the whole run of
\* their characters, which must split into measure characters then unit
\* characters (backtracking finds the split) and be followed by "ft" or "feet".
SqFeetMatchEnd(s, i) ==
    LET e == RunEnd(s, i, MeasureClass \cup UnitClass)
        splits == {k \in (i + 1)..(e - 1) :
                      /\ \A m \in i..(k - 1) : s[m] \in MeasureClass
                      /\ \A m \in k..(e - 1) : s[m] \in UnitClass}
    IN  IF splits = {} THEN 0
        ELSE IF StartsWith(s, e, <<"f", "t">>) THEN e + 2
        ELSE IF StartsWith(s, e, <<"f", "e", "e", "t">>) THEN e + 4
        ELSE 0

\* re.findall(sq_feet_pattern, text)
RECURSIVE FindAllSqFeet(_, _)
FindAllSqFeet(s, i) ==
    IF i > Len(s) THEN <<>>
    ELSE LET e == SqFeetMatchEnd(s, i)
         IN  IF e = 0 THEN FindAllSqFeet(s, i + 1)
             ELSE <<SubSeq(s, i, e - 1)>> \o FindAllSqFeet(s, e)

\* all_sq_feet.extend(numbers_from_string(match)) over the matches, in order.
RECURSIVE ExtendAll(_)
ExtendAll(matches) ==
    IF matches = <<>> THEN Ok(<<>>)
    ELSE ConsAll(numbers_from_string(Head(matches)), ExtendAll(Tail(matches)))

\* np.nanmax of a non-empty list of numbers, none of them NaN.
NanMax(xs) ==
    CHOOSE x \in {xs[k] : k \in 1..Len(xs)} :
        \A k \in 1..Len(xs) : ~RatLess(x, xs[k])

\* Lines 60-63: the maximum of all_sq_feet, NaN when it is empty.
MaxSqFeet(all_sq_feet) ==
    IF all_sq_feet.exc # "none" THEN Raise(all_sq_feet.exc)
    ELSE IF all_sq_feet.val # <<>> THEN Ok(NanMax(all_sq_feet.val))
    ELSE Ok(NaN)

\* Lines 55-59: the numbers of every match of sq_feet_pattern in the text.
AllSqFeet(text) ==
    IF text.exc # "none" THEN Raise(text.exc)
    ELSE ExtendAll(FindAllSqFeet(text.val, 1))

extract_total_sq_footage_from_floorplan(img) ==
    MaxSqFeet(AllSqFeet(extract_text_from_image(img)))

-----------------------------------------------------------------------------
(* listing_details.ListingDetails.extract_price_change_history *)

\* None, and a value that is present.
None == <<>>

Some(x) == <<x>>

\* float("inf"): what pct_change gives for a rise from a price of zero.
Inf == [n |-> 1, d |-> 0]

RatAdd(a, b) ==
    IF a.d = 0 \/ b.d = 0 THEN Inf
    ELSE Rat(a.n * b.d + b.n * a.d, a.d * b.d)

\* A pd.Series is the sequence of its <<label, value>> entries; pd.Series(dtype=
\* "object") and pd.DataFrame() are empty.
EmptySeries == <<>>

\* The data_records list: firstPublished, then lastSale, then the priceChanges.
DataRecords(ph) ==
    (IF ph.firstPublished # None
     THEN <<[date |-> ph.firstPublished[1].date, price |-> ph.firstPublished[1].priceLabel,
             price_change_type |-> "listing_change"]>>
     ELSE <<>>)
    \o (IF ph.lastSale # None
        THEN <<[date |-> ph.lastSale[1].date, price |-> ph.lastSale[1].priceLabel,
                price_change_type |-> "last_sold"]>>
        ELSE <<>>)
    \o (IF ph.priceChanges # None
        THEN [k \in 1..Len(ph.priceChanges[1]) |->
                 [date |-> ph.priceChanges[1][k].date,
                  price |-> ph.priceChanges[1][k].priceLabel,
                  price_change_type |-> "listing_change"]]
        ELSE <<>>)

\* floor_plan_utils.numbers_from_string(v)[0]
FirstOf(ns) ==
    IF ns.exc # "none" THEN Raise(ns.exc)
    ELSE IF ns.val = <<>> THEN Raise("IndexError")
    ELSE Ok(ns.val[1])

FirstNumber(label) == FirstOf(numbers_from_string(label))

\* out_df["price"].apply(...): every label is parsed, the first failure raises.
WithPrice(rec, f) ==
    IF f.exc # "none" THEN Raise(f.exc) ELSE Ok([rec EXCEPT !.price = f.val])

RECURSIVE ParsePrices(_)
ParsePrices(recs) ==
    IF recs = <<>> THEN Ok(<<>>)
    ELSE Cons(WithPrice(Head(recs), FirstNumber(Head(recs).price)),
              ParsePrices(Tail(recs)))

Orderings(n) == {f \in [1..n -> 1..n] : \A i, j \in 1..n : i # j => f[i] # f[j]}

\* out_df.sort_index(): the rows in date order.  The default sort kind is not
\* stable, so rows of equal date may come out in any order.
SortedByDate(rows) ==
    {[k \in 1..Len(rows) |-> rows[f[k]]] : f \in
        {g \in Orderings(Len(rows)) :
            \A i, j \in 1..Len(rows) : i < j => rows[g[i]].date <= rows[g[j]].date}}

\* out_df[out_df["price_change_type"] == "listing_change"]["price"]
ListingChangePrices(out_df) ==
    LET kept == SelectSeq(out_df, LAMBDA r : r.price_change_type = "listing_change")
    IN  [k \in 1..Len(kept) |-> kept[k].price]

\* One element of Series.pct_change(): cur / prev - 1 in floating point.
PctChange(prev, cur) ==
    IF prev.n = 0
    THEN IF cur.n = 0 THEN NaN ELSE Inf
    ELSE Rat(cur.n * prev.d - prev.n * cur.d, prev.n * cur.d)

\* prices.pct_change().dropna(): the first element, NaN, and every NaN go.
PctChanges(prices) ==
    SelectSeq([k \in 1..(IF Len(prices) = 0 THEN 0 ELSE Len(prices) - 1) |->
                  PctChange(prices[k], prices[k + 1])],
              LAMBDA c : ~IsNaN(c))

RECURSIVE RatSum(_)
RatSum(xs) == IF xs = <<>> THEN [n |-> 0, d |-> 1] ELSE RatAdd(Head(xs), RatSum(Tail(xs)))

\* Series.mean(), NaN of an empty series.
MeanOf(t, count) == IF t.d = 0 THEN Inf ELSE Rat(t.n, t.d * count)

SeriesMean(xs) == IF xs = <<>> THEN NaN ELSE MeanOf(RatSum(xs), Len(xs))

\* Series.max() and Series.min(), NaN of an empty series.
SeriesMax(xs) ==
    IF xs = <<>> THEN NaN
    ELSE CHOOSE x \in {xs[k] : k \in 1..Len(xs)} : \A k \in 1..Len(xs) : ~RatLess(x, xs[k])

SeriesMin(xs) ==
    IF xs = <<>> THEN NaN
    ELSE CHOOSE x \in {xs[k] : k \in 1..Len(xs)} : \A k \in 1..Len(xs) : ~RatLess(xs[k], x)

\* The summarised branch, lines 140-150.
SummaryOf(first_listed, listing_changes) ==
    << <<"first_listed", first_listed>>,
       <<"number_of_price_changes", Len(listing_changes)>>,
       <<"avg_pct_per_price_change", SeriesMean(listing_changes)>>,
       <<"max_pct_per_price_change", SeriesMax(listing_changes)>>,
       <<"min_pct_per_price_change", SeriesMin(listing_changes)>> >>

Summarise(first_listed, out_df) ==
    SummaryOf(first_listed, PctChanges(ListingChangePrices(out_df)))

\* The rows of the detailed frame, each with its listingId column.
WithListingId(out_df, listing_id) ==
    [k \in 1..Len(out_df) |->
        [date |-> out_df[k].date, price |-> out_df[k].price,
         price_change_type |-> out_df[k].price_change_type, listingId |-> listing_id]]

\* The outcomes of extract_price_change_history on the API's response
\* [status |-> "ok" | "http_error", priceHistory |-> None | Some(record)]: each is
\* [exc, val, out_df], out_df being the sorted frame the result is computed from.
\* Lines 105 and 110-112.
FirstListed(ph) ==
    IF ph.firstPublished # None THEN Some(ph.firstPublished[1].date) ELSE None

\* Lines 134-152, from the parsed rows on.
HistoryOfParsed(listing_id, first_listed, parsed, summarise) ==
    IF parsed.exc # "none"
    THEN {[exc |-> parsed.exc, val |-> NoVal, out_df |-> <<>>]}
    ELSE {[exc |-> "none",
           val |-> IF summarise THEN Summarise(first_listed, df)
                   ELSE WithListingId(df, listing_id),
           out_df |-> df] : df \in SortedByDate(parsed.val)}

\* Lines 130-152, from data_records on.
HistoryOfRecords(listing_id, first_listed, data_records, summarise) ==
    IF data_records = <<>>
    THEN {[exc |-> "none", val |-> EmptySeries, out_df |-> <<>>]}
    ELSE HistoryOfParsed(listing_id, first_listed, ParsePrices(data_records), summarise)

extract_price_change_history(listing_id, response, summarise) ==
    IF response.status # "ok"
    THEN {[exc |-> "HTTPError", val |-> NoVal, out_df |-> <<>>]}
    ELSE IF response.priceHistory = None
    THEN {[exc |-> "none", val |-> EmptySeries, out_df |-> <<>>]}
    ELSE HistoryOfRecords(listing_id, FirstListed(response.priceHistory[1]),
                          DataRecords(response.priceHistory[1]), summarise)

-----------------------------------------------------------------------------
(* listing_details.ListingDetails *)

\* A listing page is [page |-> "ok" | "fetch_error" | "no_json", details |-> d]; d,
\* the listingDetails object of its embedded JSON, is
\*   [listingId, adTargeting (a sequence of <<key, value>>), pointsOfInterest
\*    (a sequence of [type, title, distanceMiles]), floorPlan (None or
\*    Some(sequence of images)), response (the price-history API's answer)].

SeriesLabels(series) == {series[k][1] : k \in 1..Len(series)}

\* series[label], for a label the series has once.
SeriesGet(series, label) ==
    LET k == CHOOSE j \in 1..Len(series) : series[j][1] = label
    IN  series[k][2]

\* ListingDetails.__init__: _extract_raw_html, then _extract_listing_details.
LoadListing(listing) ==
    IF listing.page = "fetch_error" THEN Raise("ConnectionError")
    ELSE IF listing.page = "no_json" THEN Raise("Exception")
    ELSE Ok(listing.details)

\* Keys of adTargeting with "__" in them.
InternalKeys == {"__typename"}

extract_main_details(d) ==
    Ok(SelectSeq(d.adTargeting, LAMBDA kv : kv[1] \notin InternalKeys))

PoiTypes == {"school", "station"}

DistanceLabel(type) ==
    CASE type = "school" -> "school_distance_miles"
      [] type = "station" -> "station_distance_miles"

\* The labels extract_pois can produce, in sort_index order.
PoiLabelOrder == <<"school", "school_distance_miles", "station", "station_distance_miles">>

\* The outcomes of extract_pois.  Of an empty list pd.DataFrame has no columns and
\* sort_values("distanceMiles") raises KeyError.  Otherwise each type keeps its
\* nearest entry: sort_values is not stable, so any entry at the least distance.
extract_pois(d) ==
    LET pois  == d.pointsOfInterest
        types == {pois[k].type : k \in 1..Len(pois)}
        nearest(t) == {k \in 1..Len(pois) :
                          /\ pois[k].type = t
                          /\ \A j \in 1..Len(pois) :
                                pois[j].type = t => pois[k].distanceMiles <= pois[j].distanceMiles}
        entry(pick, label) ==
            IF label \in types THEN <<label, pois[pick[label]].title>>
            ELSE LET t == CHOOSE u \in types : DistanceLabel(u) = label
                 IN  <<label, pois[pick[t]].distanceMiles>>
        labels == SelectSeq(PoiLabelOrder,
                            LAMBDA l : l \in types \cup {DistanceLabel(t) : t \in types})
    IN  IF pois = <<>> THEN {Raise("KeyError")}
        ELSE {Ok([k \in 1..Len(labels) |-> entry(pick, labels[k])]) :
                 pick \in {f \in [types -> 1..Len(pois)] : \A t \in types : f[t] \in nearest(t)}}

extract_detailed_description(d) == Ok(<< <<"detailedDescription", d.detailedDescription>> >>)

extract_location(d) ==
    Ok(<< <<"latitude", d.location.latitude>>, <<"longitude", d.location.longitude>> >>)

\* The list comprehension of extract_sq_footage: one floorplan after the other,
\* the first that raises ends it.
RECURSIVE AllSqFootage(_)
AllSqFootage(images) ==
    IF images = <<>> THEN Ok(<<>>)
    ELSE Cons(extract_total_sq_footage_from_floorplan(Head(images)),
              AllSqFootage(Tail(images)))

\* Series.dropna()
DropNa(xs) == SelectSeq(xs, LAMBDA x : ~IsNaN(x))

\* ReplaceZero with the zero measurements left in.
ReplaceZeroKept(xs) == xs

\* Series.replace(0, np.nan)
ReplaceZero(xs) == [k \in 1..Len(xs) |-> IF xs[k].n = 0 /\ xs[k].d # 0 THEN NaN ELSE xs[k]]

\* Lines 92-94: .empty, and .max(), which skips NaN.
MaxOfSeries(sq) ==
    IF sq = <<>> THEN Ok(<< <<"total_sq_footage", NaN>> >>)
    ELSE Ok(<< <<"total_sq_footage", SeriesMax(DropNa(sq))>> >>)

\* Lines 89-94, from the list of the floorplans' results on.
SqFootageOf(all) ==
    IF all.exc # "none" THEN Raise(all.exc)
    ELSE MaxOfSeries(ReplaceZero(DropNa(all.val)))

extract_sq_footage(d) ==
    IF d.floorPlan = None THEN Ok(<< <<"total_sq_footage", NaN>> >>)
    ELSE SqFootageOf(AllSqFootage(d.floorPlan[1]))

RatDiv(a, b) == Rat(a.n * b.d, a.d * b.n)

\* Lines 173-178: the concatenated series and its pounds_per_sq_foot entry.
WithPoundsPerSqFoot(series) ==
    IF ~IsNaN(SeriesGet(series, "total_sq_footage"))
    THEN IF "price" \notin SeriesLabels(series) THEN Raise("KeyError")
         ELSE Ok(series \o << <<"pounds_per_sq_foot",
                               RatDiv(SeriesGet(series, "price"),
                                      SeriesGet(series, "total_sq_footage"))>> >>)
    ELSE Ok(series)

\* property_data, the list of the accessors' series: the first accessor that
\* raises ends extract_all.
RECURSIVE PropertyData(_)
PropertyData(parts) ==
    IF parts = <<>> THEN Ok(<<>>)
    ELSE ConsAll(Head(parts), PropertyData(Tail(parts)))

Concatenated(property_data) ==
    IF property_data.exc # "none" THEN Raise(property_data.exc)
    ELSE WithPoundsPerSqFoot(property_data.val)

\* The outcomes of extract_all: the accessors in the order of all_methods, then
\* the summarised price history.
extract_all(d, api_key) ==
    { Concatenated(PropertyData(<<extract_main_details(d), pois,
                                  extract_detailed_description(d), extract_location(d),
                                  extract_sq_footage(d),
                                  [exc |-> hist.exc, val |-> hist.val]>>)) :
        pois \in extract_pois(d),
        hist \in extract_price_change_history(d.listingId, d.response, TRUE) }

-----------------------------------------------------------------------------
(* listings_query.ListingsQuery and graphql_utils.extract_api_key *)

MAX_RESULTS == 10000

\* The page_size parameter of the query url, and the divisor of divmod.
PAGE_SIZE == 100

\* The portal is [redirect (whether the search answers with a location header),
\* total_element ("absent", "nodigits" or "number": the total-results paragraph),
\* total (the first run of digits of its text), pages (the listing anchors of the
\* results pages, page p showing pages[((p - 1) % Len(pages)) + 1]), scripts (per
\* script of a listing page, the X-Api-Key in it or None)].  An anchor is
\* [path, sid]: its listing path and whether "?search_identifier=..." follows it.

LogRecord(level, msg, url) == [level |-> level, msg |-> msg, url |-> url]

\* TotalPagesOf with the remainder test lost: one page too many on a multiple of 100.
TotalPagesAlwaysRoundedUp(total) == (total \div PAGE_SIZE) + 1

\* Lines 155-156: divmod(total_results, 100), one more page for a remainder.
TotalPagesOf(total) ==
    LET pages_divmod == <<total \div PAGE_SIZE, total % PAGE_SIZE>>
    IN  IF pages_divmod[2] > 0 THEN pages_divmod[1] + 1 ELSE pages_divmod[1]

\* The anchors the portal shows on a results page.
ServedAnchors(portal, page) ==
    IF portal.pages = <<>> THEN <<>>
    ELSE portal.pages[((page - 1) % Len(portal.pages)) + 1]

\* BASE_URL + re.sub('\?search_identifier=.{1,}', '', a['href'])
ListingUrl(anchor) == anchor.path

\* _get_page_property_urls: the page's anchors in document order, each stripped.
get_page_property_urls(portal, page) ==
    LET anchors == ServedAnchors(portal, page)
    IN  [k \in 1..Len(anchors) |-> ListingUrl(anchors[k])]

\* Extend putting the new page's urls first.
ExtendAtFront(urls, more) == more \o urls

\* listing_urls.extend(...)
Extend(urls, more) == urls \o more

\* extract_api_key handing back an empty key where it finds none.
RECURSIVE extract_api_key_or_blank(_)
extract_api_key_or_blank(scripts) ==
    IF scripts = <<>> THEN Ok("")
    ELSE IF Head(scripts) # None THEN Ok(Head(scripts)[1])
    ELSE extract_api_key_or_blank(Tail(scripts))

\* graphql_utils.extract_api_key: the first script with a key decides.
RECURSIVE extract_api_key(_)
extract_api_key(scripts) ==
    IF scripts = <<>> THEN Raise("Exception")
    ELSE IF Head(scripts) # None THEN Ok(Head(scripts)[1])
    ELSE extract_api_key(Tail(scripts))

\* The listing pages a listing url may answer with.
GoodListing(url) ==
    [page |-> "ok",
     details |->
        [listingId |-> url,
         adTargeting |-> << <<"listingId", url>>, <<"price", [n |-> 250000, d |-> 1]>> >>,
         pointsOfInterest |-> <<[type |-> "school", title |-> "St Mary", distanceMiles |-> 1]>>,
         detailedDescription |-> "A flat",
         location |-> [latitude |-> 51, longitude |-> 0],
         floorPlan |-> None,
         response |-> [status |-> "ok", priceHistory |->
             Some([firstPublished |-> Some([date |-> 1,
                                            priceLabel |-> <<"£", "1", ",", "0", "0", "0">>]),
                   lastSale |-> None,
                   priceChanges |-> None])]]]

ListingPagesOf(url) == {GoodListing(url), [page |-> "fetch_error"]}

\* The try block of get_listing_details.
DetailsOutcomes(page, api_key) ==
    LET p == LoadListing(page)
    IN  IF p.exc # "none" THEN {Raise(p.exc)}
        ELSE extract_all(p.val, api_key)

\* The try block of get_listing_price_history.
PriceHistoryOutcomes(page, api_key) ==
    LET p == LoadListing(page)
    IN  IF p.exc # "none" THEN {Raise(p.exc)}
        ELSE {[exc |-> h.exc, val |-> h.val] :
                 h \in extract_price_change_history(p.val.listingId, p.val.response, FALSE)}

TaskOutcomes(m, url, api_key) ==
    UNION {IF m = "details" THEN DetailsOutcomes(page, api_key)
           ELSE PriceHistoryOutcomes(page, api_key) : page \in ListingPagesOf(url)}

\* The _logger.error call of the except clause of either method.
TaskErrorRecord(m, url) ==
    IF m = "details"
    THEN LogRecord("error", "Error extracting property details", url)
    ELSE LogRecord("error", "Error extracting property price history", url)

\* LogTaskError with the _logger.error call lost.
LogTaskErrorDropped(lg, m, url) == lg

LogTaskError(lg, m, url) == Append(lg, TaskErrorRecord(m, url))

\* A worker is busy from taking a task to returning from it.
Busy(ts) == {i \in 1..Len(ts) : ts[i].state \in {"running", "caught"}}

\* The next task the pool hands out: imap queues them in the order of listing_urls.
NextQueued(ts) ==
    {i \in 1..Len(ts) : ts[i].state = "queued" /\ \A j \in 1..(i - 1) : ts[j].state # "queued"}

\* ReadyResults as imap_unordered has it: any finished task's result.
ReadyResultsUnordered(ts, collected) ==
    {i \in 1..Len(ts) : ts[i].state = "done" /\ Len(collected) < Len(ts)}

\* The results the imap iterator can yield next: only that of the next index.
ReadyResults(ts, collected) ==
    {i \in {Len(collected) + 1} : i <= Len(ts) /\ ts[i].state = "done"}

\* pd.DataFrame(all_results).set_index("listingId"): a frame of series that are all
\* empty has no listingId column.
DetailsTable(results) ==
    IF \E i \in 1..Len(results) : "listingId" \in SeriesLabels(results[i])
    THEN Ok(results)
    ELSE Raise("KeyError")

\* pd.concat(all_results)
PriceHistoryTable(results) ==
    IF results = <<>> THEN Raise("ValueError") ELSE Ok(Flatten(results))

-----------------------------------------------------------------------------
(* Specification of the text-numeric extractor on its own *)

NumChars == {"1", "2", ".", ",", "a"}

Str_1234_and_567 ==
    <<"1", ",", "2", "3", "4", " ", "a", "n", "d", " ", "5", "6", ".", "7">>

NumberTexts == SeqsUpTo(NumChars, MaxLen) \cup {Str_1234_and_567}

NoImage == [download |-> "none", ocr |-> "none", text |-> <<>>]

IdleImage ==
    /\ tmp_dir = {}
    /\ tmp_before = {}
    /\ tmp_f = None
    /\ text_pc = "idle"
    /\ image_text = Pending
    /\ removed = {}

IdleFloorplan ==
    /\ floorplan = NoImage
    /\ sq_footage = Pending
    /\ IdleImage

IdleText ==
    /\ inp_str = <<>>
    /\ float_numbers = Pending

NoResponse == [status |-> "none", priceHistory |-> None]

HistoryPending == [exc |-> "pending", val |-> NoVal, out_df |-> <<>>]

IdleHistory ==
    /\ price_history = NoResponse
    /\ summarised = TRUE
    /\ history = HistoryPending

NoListing == [page |-> "none"]

NoSite == [redirect |-> FALSE, total_element |-> "absent", total |-> 0,
           pages |-> <<>>, scripts |-> <<>>]

IdleRun ==
    /\ site = NoSite
    /\ pc = "idle"
    /\ raised = None
    /\ query_url = None
    /\ total_results = 0
    /\ total_pages = 0
    /\ page_number = 0
    /\ page_requests = <<>>
    /\ listing_urls = <<>>
    /\ key_requests = <<>>
    /\ graphql_api_key = None
    /\ log = <<>>
    /\ threads = 0
    /\ mode = "none"
    /\ tasks = <<>>
    /\ all_results = <<>>
    /\ table = Pending

IdleListing ==
    /\ listing_page = NoListing
    /\ property_data_series = Pending

InitText ==
    /\ inp_str \in NumberTexts
    /\ float_numbers = Pending
    /\ IdleFloorplan
    /\ IdleHistory
    /\ IdleListing
    /\ IdleRun

CallNumbersFromString ==
    /\ float_numbers = Pending
    /\ float_numbers' = numbers_from_string(inp_str)
    /\ UNCHANGED <<inp_str, floorplanVars, historyVars, listingVars, runVars>>

NextText == CallNumbersFromString

SpecText == InitText /\ [][NextText]_vars

-----------------------------------------------------------------------------
(* Specification of the floorplan measurement extractor on its own *)

\* Fragments of OCR output.
OcrChunks ==
    { <<"1", "2", " ", "s", "q", " ", "f", "t">>,
      <<"7", ".", "5", "s", "q", "f", "t">>,
      <<"3", "0", " ", "F", "E", "E", "T">>,
      <<"1", ",", "2", "0", "0", " ", "s", "q", ".", " ", "f", "t">>,
      <<"1", ".", "2", ".", "3", " ", "f", "t">>,
      <<".", ",", " ", "f", "t">>,
      <<"9", " ", "m">>,
      <<" ", "x", " ">> }

OcrTexts == {Flatten(cs) : cs \in SeqsUpTo(OcrChunks, MaxChunks)}

Images ==
    {[download |-> "fail", ocr |-> "none", text |-> <<>>],
     [download |-> "ok", ocr |-> "fail", text |-> <<>>]}
    \cup {[download |-> "ok", ocr |-> "ok", text |-> t] : t \in OcrTexts}

InitFloorplan ==
    /\ floorplan \in Images
    /\ sq_footage = Pending
    /\ IdleImage
    /\ IdleText
    /\ IdleHistory
    /\ IdleListing
    /\ IdleRun

CallExtractTotalSqFootage ==
    /\ sq_footage = Pending
    /\ sq_footage' = extract_total_sq_footage_from_floorplan(floorplan)
    /\ UNCHANGED <<floorplan, imageVars, textVars, historyVars, listingVars, runVars>>

NextFloorplan == CallExtractTotalSqFootage

SpecFloorplan == InitFloorplan /\ [][NextFloorplan]_vars

-----------------------------------------------------------------------------
(* Specification of the price-history accessor on its own *)

Label_1000 == <<"£", "1", ",", "0", "0", "0">>

Label_1100 == <<"£", "1", ",", "1", "0", "0">>

Label_0 == <<"£", "0">>

Label_POA == <<"P", "O", "A">>

PriceLabels == {Label_1000, Label_1100, Label_0, Label_POA}

Days == {1, 2, 3}

FirstPublishedOptions ==
    {None} \cup {Some([date |-> d, priceLabel |-> l]) : d \in Days, l \in PriceLabels}

LastSaleOptions ==
    {None} \cup {Some([date |-> d, priceLabel |-> l]) : d \in {1, 3}, l \in {Label_1000, Label_POA}}

PriceChangeEvents == [date : Days, priceLabel : PriceLabels]

PriceChangesOptions ==
    {None} \cup {Some(cs) : cs \in SeqsUpTo(PriceChangeEvents, MaxChanges)}

PriceHistories ==
    [firstPublished : FirstPublishedOptions, lastSale : LastSaleOptions,
     priceChanges : PriceChangesOptions]

Responses ==
    {[status |-> "http_error", priceHistory |-> None],
     [status |-> "ok", priceHistory |-> None]}
    \cup {[status |-> "ok", priceHistory |-> Some(ph)] : ph \in PriceHistories}

\* The listing id the accessor is called for.
HistoryListingId == "62345678"

InitHistory ==
    /\ price_history \in Responses
    /\ summarised \in BOOLEAN
    /\ history = HistoryPending
    /\ IdleText
    /\ IdleFloorplan
    /\ IdleListing
    /\ IdleRun

CallExtractPriceChangeHistory ==
    /\ history = HistoryPending
    /\ history' \in extract_price_change_history(HistoryListingId, price_history, summarised)
    /\ UNCHANGED <<price_history, summarised, textVars, floorplanVars, listingVars, runVars>>

NextHistory == CallExtractPriceChangeHistory

SpecHistory == InitHistory /\ [][NextHistory]_vars

-----------------------------------------------------------------------------
(* Specification of the listing detail extractor on its own *)

Price_250000 == [n |-> 250000, d |-> 1]

AdTargetingOptions ==
    { << <<"listingId", HistoryListingId>>, <<"price", Price_250000>>,
         <<"__typename", "AdTargeting">> >>,
      << <<"listingId", HistoryListingId>>, <<"__typename", "AdTargeting">> >> }

PoiEntries ==
    { [type |-> "school", title |-> "St Mary", distanceMiles |-> 1],
      [type |-> "school", title |-> "Park Road", distanceMiles |-> 1],
      [type |-> "school", title |-> "Park Road", distanceMiles |-> 2],
      [type |-> "station", title |-> "Central", distanceMiles |-> 2] }

TextImage(t) == [download |-> "ok", ocr |-> "ok", text |-> t]

ListingImages ==
    { [download |-> "fail", ocr |-> "none", text |-> <<>>],
      [download |-> "ok", ocr |-> "fail", text |-> <<>>],
      TextImage(<<"1", "2", " ", "s", "q", " ", "f", "t">>),
      TextImage(<<"7", ".", "5", "s", "q", "f", "t">>),
      TextImage(<<"0", " ", "s", "q", " ", "f", "t">>),
      TextImage(<<" ", "x", " ">>) }

FloorPlanOptions == {None} \cup {Some(is) : is \in SeqsUpTo(ListingImages, MaxImages)}

ListingResponses ==
    { [status |-> "http_error", priceHistory |-> None],
      [status |-> "ok", priceHistory |-> None],
      [status |-> "ok", priceHistory |->
          Some([firstPublished |-> None, lastSale |-> None, priceChanges |-> None])],
      [status |-> "ok", priceHistory |->
          Some([firstPublished |-> Some([date |-> 1, priceLabel |-> Label_1000]),
                lastSale |-> None,
                priceChanges |-> Some(<<[date |-> 2, priceLabel |-> Label_1100]>>)])],
      [status |-> "ok", priceHistory |->
          Some([firstPublished |-> None,
                lastSale |-> Some([date |-> 1, priceLabel |-> Label_POA]),
                priceChanges |-> Some(<<>>)])] }

ListingDetailsOptions ==
    [listingId : {HistoryListingId},
     adTargeting : AdTargetingOptions,
     pointsOfInterest : SeqsUpTo(PoiEntries, MaxPois),
     detailedDescription : {"A flat"},
     location : {[latitude |-> 51, longitude |-> 0]},
     floorPlan : FloorPlanOptions,
     response : ListingResponses]

ListingPages ==
    {[page |-> "fetch_error"], [page |-> "no_json"]}
    \cup {[page |-> "ok", details |-> d] : d \in ListingDetailsOptions}

\* The key the orchestrator hands to extract_all.
SomeApiKey == "k1"

\* ListingDetails(url) followed by extract_all, as get_listing_details calls them.
ListingOutcomes(page, api_key) ==
    LET p == LoadListing(page)
    IN  IF p.exc # "none" THEN {Raise(p.exc)}
        ELSE extract_all(p.val, api_key)

InitListing ==
    /\ listing_page \in ListingPages
    /\ property_data_series = Pending
    /\ IdleText
    /\ IdleFloorplan
    /\ IdleHistory
    /\ IdleRun

CallExtractAll ==
    /\ property_data_series = Pending
    /\ property_data_series' \in ListingOutcomes(listing_page, SomeApiKey)
    /\ UNCHANGED <<listing_page, textVars, floorplanVars, historyVars, runVars>>

NextListing == CallExtractAll

SpecListing == InitListing /\ [][NextListing]_vars

-----------------------------------------------------------------------------
(* The query run: ListingsQuery(...) and one extract_all_properties_* call *)

Anchors == {[path |-> "/details/1", sid |-> TRUE], [path |-> "/details/2", sid |-> FALSE]}

ResultsPages == SeqsUpTo(Anchors, MaxAnchors)

ScriptsOptions ==
    { <<>>, <<None>>, <<None, Some("k2"), Some("k1")>> }

\* The result counts of a run whose listings are then extracted.
RunTotals == {0, 1, 100}

\* The result counts of the pagination on its own.
PaginationTotals == {0, 1, 99, 100, 101, 200, 250, 9999, 10000, 10001}

Sites(totals, pagesets, scriptsets) ==
    [redirect : BOOLEAN, total_element : {"absent", "nodigits"}, total : {0},
     pages : {<<>>}, scripts : {<<>>}]
    \cup [redirect : {TRUE}, total_element : {"number"}, total : totals,
          pages : pagesets, scripts : scriptsets]

InitRunWith(sites) ==
    /\ site \in sites
    /\ pc = "gen_query_url"
    /\ raised = None
    /\ query_url = None
    /\ total_results = 0
    /\ total_pages = 0
    /\ page_number = 0
    /\ page_requests = <<>>
    /\ listing_urls = <<>>
    /\ key_requests = <<>>
    /\ graphql_api_key = None
    /\ log = <<>>
    /\ threads = 0
    /\ mode = "none"
    /\ tasks = <<>>
    /\ all_results = <<>>
    /\ table = Pending
    /\ IdleText
    /\ IdleFloorplan
    /\ IdleHistory
    /\ IdleListing

pureVars == <<textVars, floorplanVars, historyVars, listingVars>>

Abort(e) ==
    /\ pc' = "aborted"
    /\ raised' = Some(e)

\* _gen_query_url: r.headers["location"] of the search request.
GenQueryUrl ==
    /\ pc = "gen_query_url"
    /\ IF site.redirect
       THEN /\ query_url' = Some("results?page_size=100&pn=1")
            /\ pc' = "get_total"
            /\ UNCHANGED raised
       ELSE /\ Abort("KeyError")
            /\ UNCHANGED query_url
    /\ UNCHANGED <<site, total_results, total_pages, page_number, page_requests,
                   listing_urls, key_requests, graphql_api_key, log, poolVars, pureVars>>

\* get_all_listing_urls up to the loop: lines 142-157.
GetTotalResults ==
    /\ pc = "get_total"
    /\ LET started == Append(log, LogRecord("info", "Getting all listing urls", ""))
       IN  CASE site.total_element = "absent" ->
                 /\ Abort("Exception")
                 /\ log' = started
                 /\ UNCHANGED <<total_results, total_pages, page_number>>
             [] site.total_element = "nodigits" ->
                 /\ Abort("AttributeError")
                 /\ log' = started
                 /\ UNCHANGED <<total_results, total_pages, page_number>>
             [] site.total_element = "number" ->
                 /\ total_results' = site.total
                 /\ log' = IF site.total >= MAX_RESULTS
                           THEN Append(started, LogRecord("warning", "Too many results", ""))
                           ELSE started
                 /\ total_pages' = TotalPagesOf(site.total)
                 /\ page_number' = 1
                 /\ pc' = "pages"
                 /\ UNCHANGED raised
    /\ UNCHANGED <<site, query_url, page_requests, listing_urls, key_requests,
                   graphql_api_key, poolVars, pureVars>>

\* One turn of the loop of lines 158-159.
FetchPage ==
    /\ pc = "pages"
    /\ page_number <= total_pages
    /\ page_requests' = Append(page_requests, page_number)
    /\ listing_urls' = Extend(listing_urls, get_page_property_urls(site, page_number))
    /\ page_number' = page_number + 1
    /\ UNCHANGED <<site, pc, raised, query_url, total_results, total_pages, key_requests,
                   graphql_api_key, log, poolVars, pureVars>>

\* The loop is over: return listing_urls, line 161.
ReturnListingUrls ==
    /\ pc = "pages"
    /\ page_number > total_pages
    /\ pc' = "get_api_key"
    /\ UNCHANGED <<setupVars, raised, log, poolVars, pureVars>>

\* get_graphql_api_key, lines 168-171, which ends __init__.
GetGraphqlApiKey ==
    /\ pc = "get_api_key"
    /\ LET started == Append(log, LogRecord("info", "Extracting graph ql API key", ""))
       IN  IF listing_urls = <<>>
           THEN /\ Abort("IndexError")
                /\ log' = started
                /\ UNCHANGED <<key_requests, graphql_api_key>>
           ELSE LET api_key == extract_api_key(site.scripts)
                IN  /\ key_requests' = Append(key_requests, listing_urls[1])
                    /\ IF api_key.exc # "none"
                       THEN /\ Abort(api_key.exc)
                            /\ log' = started
                            /\ UNCHANGED graphql_api_key
                       ELSE /\ graphql_api_key' = Some(api_key.val)
                            /\ log' = Append(started, LogRecord("info", "API key found", ""))
                            /\ pc' = "ready"
                            /\ UNCHANGED raised
    /\ UNCHANGED <<site, query_url, total_results, total_pages, page_number, page_requests,
                   listing_urls, poolVars, pureVars>>

\* extract_all_properties_details(threads) or extract_all_properties_price_history(
\* threads): the pool is made and imap queues one task per listing url.
StartFanOut ==
    /\ pc = "ready"
    /\ \E th \in 1..MaxThreads, m \in {"details", "price_history"} :
          /\ threads' = th
          /\ mode' = m
    /\ tasks' = [i \in 1..Len(listing_urls) |->
                    [url |-> listing_urls[i], state |-> "queued", exc |-> "none",
                     api_key |-> None, result |-> <<>>]]
    /\ pc' = "fan_out"
    /\ UNCHANGED <<setupVars, raised, log, all_results, table, pureVars>>

\* A free worker takes the next task, which reads self.graphql_api_key.
StartTask ==
    /\ pc = "fan_out"
    /\ Cardinality(Busy(tasks)) < threads
    /\ \E i \in NextQueued(tasks) :
          tasks' = [tasks EXCEPT ![i].state = "running", ![i].api_key = graphql_api_key]
    /\ UNCHANGED <<setupVars, pc, raised, log, threads, mode, all_results, table, pureVars>>

\* get_listing_details or get_listing_price_history returns from its try block.
TaskReturn ==
    /\ pc = "fan_out"
    /\ \E i \in 1..Len(tasks) :
          /\ tasks[i].state = "running"
          /\ \E o \in TaskOutcomes(mode, tasks[i].url, tasks[i].api_key[1]) :
                /\ o.exc = "none"
                /\ tasks' = [tasks EXCEPT ![i].state = "done", ![i].result = o.val]
    /\ UNCHANGED <<setupVars, pc, raised, log, threads, mode, all_results, table, pureVars>>

\* Its try block raises: the except clause logs the error with the url.
TaskExcept ==
    /\ pc = "fan_out"
    /\ \E i \in 1..Len(tasks) :
          /\ tasks[i].state = "running"
          /\ \E o \in TaskOutcomes(mode, tasks[i].url, tasks[i].api_key[1]) :
                /\ o.exc # "none"
                /\ tasks' = [tasks EXCEPT ![i].state = "caught", ![i].exc = o.exc]
          /\ log' = LogTaskError(log, mode, tasks[i].url)
    /\ UNCHANGED <<setupVars, pc, raised, threads, mode, all_results, table, pureVars>>

\* The except clause returns the empty series, or the empty frame.
TaskReturnEmpty ==
    /\ pc = "fan_out"
    /\ \E i \in 1..Len(tasks) :
          /\ tasks[i].state = "caught"
          /\ tasks' = [tasks EXCEPT ![i].state = "done", ![i].result = EmptySeries]
    /\ UNCHANGED <<setupVars, pc, raised, log, threads, mode, all_results, table, pureVars>>

\* list(...) takes the next result from the imap iterator.
CollectResult ==
    /\ pc = "fan_out"
    /\ \E i \in ReadyResults(tasks, all_results) :
          all_results' = Append(all_results, tasks[i].result)
    /\ UNCHANGED <<setupVars, pc, raised, log, threads, mode, tasks, table, pureVars>>

\* The list is complete: the with block ends and the table is built, lines 215, 226.
BuildTable ==
    /\ pc = "fan_out"
    /\ Len(all_results) = Len(tasks)
    /\ LET t == IF mode = "details" THEN DetailsTable(all_results)
                ELSE PriceHistoryTable(all_results)
       IN  /\ table' = t
           /\ IF t.exc = "none"
              THEN pc' = "returned" /\ UNCHANGED raised
              ELSE Abort(t.exc)
    /\ UNCHANGED <<setupVars, log, threads, mode, tasks, all_results, pureVars>>

Init == InitRunWith(Sites(RunTotals, {<<p>> : p \in ResultsPages}, ScriptsOptions))

Next ==
    \/ GenQueryUrl
    \/ GetTotalResults
    \/ FetchPage
    \/ ReturnListingUrls
    \/ GetGraphqlApiKey
    \/ StartFanOut
    \/ StartTask
    \/ TaskReturn
    \/ TaskExcept
    \/ TaskReturnEmpty
    \/ CollectResult
    \/ BuildTable

Spec == Init /\ [][Next]_vars

-----------------------------------------------------------------------------
(* The pagination on its own: ListingsQuery(...) up to the return of
   get_all_listing_urls *)

InitPages ==
    InitRunWith(Sites(PaginationTotals,
                      {<<p, q>> : p, q \in ResultsPages},
                      {<<>>}))

NextPages ==
    \/ GenQueryUrl
    \/ GetTotalResults
    \/ FetchPage
    \/ ReturnListingUrls

SpecPages == InitPages /\ [][NextPages]_vars

-----------------------------------------------------------------------------
(* extract_text_from_image step by step, with the directory of temporary files *)

\* The names a temporary file can get, and files of others in the directory.
TempNames == {"tmpa.png", "tmpb.png", "tmpc.png"}

OtherFiles == {"tmpa.png", "tmpb.png"}

InitImageText ==
    /\ floorplan \in Images
    /\ sq_footage = Pending
    /\ tmp_before \in SUBSET OtherFiles
    /\ tmp_dir = tmp_before
    /\ tmp_f = None
    /\ text_pc = "get"
    /\ image_text = Pending
    /\ removed = {}
    /\ IdleText
    /\ IdleHistory
    /\ IdleListing
    /\ IdleRun

\* Line 20: r = requests.get(img_url, ...), before there is any file.
RequestsGet ==
    /\ text_pc = "get"
    /\ IF floorplan.download = "fail"
       THEN /\ image_text' = Raise("ConnectionError")
            /\ text_pc' = "done"
       ELSE /\ text_pc' = "tempfile"
            /\ UNCHANGED image_text
    /\ UNCHANGED <<floorplan, sq_footage, tmp_dir, tmp_before, tmp_f, removed,
                   textVars, historyVars, listingVars, runVars>>

\* Line 23: tempfile.NamedTemporaryFile(suffix=..., delete=False) makes a file of
\* a name not in use, or fails to make one.
NamedTemporaryFile ==
    /\ text_pc = "tempfile"
    /\ \/ \E name \in TempNames \ tmp_dir :
             /\ tmp_f' = Some(name)
             /\ tmp_dir' = tmp_dir \cup {name}
             /\ text_pc' = "write"
             /\ UNCHANGED image_text
       \/ /\ image_text' = Raise("OSError")
          /\ text_pc' = "done"
          /\ UNCHANGED <<tmp_f, tmp_dir>>
    /\ UNCHANGED <<floorplan, sq_footage, tmp_before, removed,
                   textVars, historyVars, listingVars, runVars>>

\* Lines 25-26 in the try block: tmp_f.write(r.content) and tmp_f.close(), which
\* may fail; the exception waits for the finally clause.
WriteContent ==
    /\ text_pc = "write"
    /\ \/ /\ text_pc' = "process"
          /\ UNCHANGED image_text
       \/ /\ image_text' = Raise("OSError")
          /\ text_pc' = "finally"
    /\ UNCHANGED <<floorplan, sq_footage, tmp_dir, tmp_before, tmp_f, removed,
                   textVars, historyVars, listingVars, runVars>>

\* Lines 27-28: textract.process(...).decode("utf-8").lower(); the text to
\* return, or the exception, waits for the finally clause.
TextractProcess ==
    /\ text_pc = "process"
    /\ image_text' = IF floorplan.ocr = "fail" THEN Raise("ShellError")
                     ELSE Ok(Lower(floorplan.text))
    /\ text_pc' = "finally"
    /\ UNCHANGED <<floorplan, sq_footage, tmp_dir, tmp_before, tmp_f, removed,
                   textVars, historyVars, listingVars, runVars>>

\* Lines 29-30: finally: os.remove(tmp_f.name); the call then returns or raises.
OsRemove ==
    /\ text_pc = "finally"
    /\ tmp_dir' = os_remove(tmp_dir, tmp_f[1])
    /\ removed' = removed \cup {tmp_f[1]}
    /\ text_pc' = "done"
    /\ UNCHANGED <<floorplan, sq_footage, tmp_before, tmp_f, image_text,
                   textVars, historyVars, listingVars, runVars>>

NextImageText ==
    \/ RequestsGet
    \/ NamedTemporaryFile
    \/ WriteContent
    \/ TextractProcess
    \/ OsRemove

SpecImageText == InitImageText /\ [][NextImageText]_vars

\* C13: temporary file cleanup.  When extract_text_from_image has returned or
\* raised, the temporary file it made, if it made one, is gone again and was the
\* one file it removed, so the directory is as it was before the call; and at no
\* time does the call remove a file it has not made, or is a file of others
\* missing.  A call that got as far as OCR hands back what the text extractor
\* is defined to hand back.
C13_TemporaryFileCleanup ==
    /\ tmp_before \subseteq tmp_dir
    /\ removed \subseteq {tmp_f[k] : k \in 1..Len(tmp_f)}
    /\ tmp_dir \ tmp_before \subseteq {tmp_f[k] : k \in 1..Len(tmp_f)}
    /\ (tmp_f # None => tmp_f[1] \notin tmp_before)
    /\ (text_pc \in {"write", "process", "finally"} => tmp_f # None /\ tmp_f[1] \in tmp_dir)
    /\ (text_pc = "done" =>
          /\ tmp_dir = tmp_before
          /\ image_text # Pending
          /\ (tmp_f # None => tmp_f[1] \notin tmp_dir /\ removed = {tmp_f[1]})
          /\ (tmp_f = None => removed = {} /\ image_text.exc \in {"ConnectionError", "OSError"})
          /\ (image_text.exc # "OSError" => image_text = extract_text_from_image(floorplan)))

\* The OCR step has failed on a temporary file made next to files of others: the
\* call has raised and the file is gone.
C13_RemovedAfterOcrFailure ==
    /\ text_pc = "done"
    /\ image_text = Raise("ShellError")
    /\ tmp_before = OtherFiles
    /\ tmp_f = Some("tmpc.png")
    /\ removed = {"tmpc.png"}
    /\ tmp_dir = OtherFiles

-----------------------------------------------------------------------------
(* Properties of the query run *)

\* The tasks whose try block raised.
FailedTasks == {i \in 1..Len(tasks) : tasks[i].exc # "none"}

\* C1: per-listing failure isolation in extract_all_properties_details.  Whenever
\* the call is over and the extraction of exactly one of the N submitted listing
\* urls raised, the run has not aborted and the table has exactly N rows, the
\* failing listing's row empty and the other N - 1 rows populated.
C1_FailureIsolation ==
    (mode = "details" /\ table # Pending /\ Cardinality(FailedTasks) = 1) =>
        /\ pc = "returned"
        /\ raised = None
        /\ table.exc = "none"
        /\ Len(table.val) = Len(listing_urls)
        /\ \A i \in 1..Len(listing_urls) : (table.val[i] = EmptySeries) <=> (i \in FailedTasks)

\* What the task of a listing url can hand back: what its try block returns, or
\* the empty record of its except clause.
ResultsFor(url) ==
    {EmptySeries}
    \cup {o.val : o \in {x \in TaskOutcomes(mode, url, graphql_api_key[1]) : x.exc = "none"}}

\* C2: result order equals submission order.  For every worker count and every
\* interleaving of the tasks, the i-th collected result is the result of the task
\* of the i-th entry of listing_urls, a finished task, and the table is built only
\* when every submitted task has completed and its result has been collected.
C2_ResultOrderIsSubmissionOrder ==
    /\ Len(all_results) <= Len(tasks)
    /\ \A i \in 1..Len(all_results) :
          /\ tasks[i].url = listing_urls[i]
          /\ tasks[i].state = "done"
          /\ all_results[i] = tasks[i].result
          /\ all_results[i] \in ResultsFor(listing_urls[i])
    /\ (table # Pending =>
          /\ Len(all_results) = Len(listing_urls)
          /\ \A i \in 1..Len(tasks) : tasks[i].state = "done")

\* Three tasks on two workers: the third has finished while the second still
\* runs, and only the first result has been collected.
C2_OutOfOrderCompletion ==
    /\ threads = 2
    /\ Len(tasks) = 3
    /\ listing_urls[2] # listing_urls[3]
    /\ tasks[2].state = "running"
    /\ tasks[3].state = "done"
    /\ tasks[3].exc = "none"
    /\ Len(all_results) = 1

\* The error records of the log that name a url.
ErrorRecordsFor(lg, url) ==
    {k \in 1..Len(lg) : lg[k].level = "error" /\ lg[k].url = url}

ErrorRecords(lg) == {k \in 1..Len(lg) : lg[k].level = "error"}

\* The tasks of a url whose except clause has been entered.
CaughtTasksOf(url) ==
    {j \in 1..Len(tasks) : tasks[j].url = url /\ tasks[j].exc # "none"}

\* C6 as stated: failures are always logged before substitution or abort.  Every
\* per-listing failure has an error record naming its url, and a run that aborted
\* in its setup (search redirect missing, total-results element absent, API key
\* not found) has emitted a record of the failure.
C6_FailuresAlwaysLogged ==
    /\ \A i \in FailedTasks : ErrorRecordsFor(log, tasks[i].url) # {}
    /\ ((pc = "aborted" /\ tasks = <<>>) => ErrorRecords(log) # {})

\* C6 as amended: each per-listing failure during fan-out emits an error record
\* naming the failing url before the empty record is substituted (the record is
\* there from the moment the except clause is entered, one per failure), while a
\* setup failure aborts the run by raising, with no record of the failure.
C6_PerListingFailuresLogged ==
    /\ \A i \in 1..Len(tasks) :
          /\ (tasks[i].state = "caught" <=> (tasks[i].exc # "none" /\ tasks[i].state # "done"))
          /\ (tasks[i].exc # "none" =>
                /\ Cardinality(ErrorRecordsFor(log, tasks[i].url))
                      >= Cardinality(CaughtTasksOf(tasks[i].url))
                /\ (tasks[i].state = "done" => tasks[i].result = EmptySeries))
    /\ ((pc = "aborted" /\ tasks = <<>>) => ErrorRecords(log) = {})

\* A failed task whose empty record has been substituted, its error in the log.
C6_SubstitutedAfterLogging ==
    \E i \in 1..Len(tasks) :
        /\ tasks[i].state = "done"
        /\ tasks[i].exc # "none"
        /\ tasks[i].result = EmptySeries
        /\ ErrorRecordsFor(log, tasks[i].url) # {}

\* The scripts of the probed listing page that hold a key.
KeyScripts == {k \in 1..Len(site.scripts) : site.scripts[k] # None}

\* C12: the API key lifecycle.  The key is resolved at most once in a run, and
\* only when the collection of the listing urls has finished, by probing the first
\* collected listing url; once set it is the key of the first script that has
\* one, in every later state; every task that has started has read this very
\* key; and without a key no task is ever submitted: the run has aborted.
C12_ApiKeyLifecycle ==
    /\ Len(key_requests) <= 1
    /\ (key_requests # <<>> =>
          /\ pc \notin {"gen_query_url", "get_total", "pages", "get_api_key"}
          /\ Len(page_requests) = total_pages
          /\ listing_urls # <<>>
          /\ key_requests[1] = listing_urls[1])
    /\ (pc \in {"gen_query_url", "get_total", "pages", "get_api_key"} =>
          graphql_api_key = None /\ tasks = <<>>)
    /\ (graphql_api_key # None =>
          /\ Len(key_requests) = 1
          /\ KeyScripts # {}
          /\ \A k \in KeyScripts :
                (\A j \in KeyScripts : k <= j) => graphql_api_key = site.scripts[k])
    /\ (graphql_api_key = None /\ pc \notin {"gen_query_url", "get_total", "pages", "get_api_key"} =>
          pc = "aborted" /\ tasks = <<>>)
    /\ (tasks # <<>> => graphql_api_key # None)
    /\ \A i \in 1..Len(tasks) :
          IF tasks[i].state = "queued" THEN tasks[i].api_key = None
          ELSE tasks[i].api_key = graphql_api_key

\* Two tasks run at the same time, both with the key of the second script, the
\* first to have one, found by one probe of the first listing url.
C12_TwoTasksShareTheKey ==
    /\ site.scripts = <<None, Some("k2"), Some("k1")>>
    /\ Len(tasks) >= 2
    /\ key_requests = <<listing_urls[1]>>
    /\ tasks[1].state = "running"
    /\ tasks[2].state = "running"
    /\ tasks[1].api_key = Some("k2")
    /\ tasks[2].api_key = Some("k2")

-----------------------------------------------------------------------------
(* Properties of the pagination *)

\* C3: the result cap.  When the results page reports total_results >= 10,000,
\* get_all_listing_urls fetches at most the cap's worth of pages, 10,000 / 100,
\* collects at most 10,000 urls, logs the truncation warning and does not raise.
C3_ResultCap ==
    (pc \in {"pages", "get_api_key"} /\ total_results >= MAX_RESULTS) =>
        /\ Len(page_requests) <= MAX_RESULTS \div PAGE_SIZE
        /\ Len(listing_urls) <= MAX_RESULTS
        /\ \E k \in 1..Len(log) : log[k].level = "warning"
        /\ raised = None

\* C4: the pagination count.  For every total_results below the cap, total_pages
\* is ceil(total_results / 100), the least count of pages of 100 that holds them
\* all, and by the time get_all_listing_urls returns exactly the pages 1 to
\* total_pages have been fetched, once each: 3 for 250, 2 for 200, none for 0.
\* (The request that reads total_results is made before the collection starts and
\* is not one of these.)
C4_PaginationCount ==
    (pc \in {"pages", "get_api_key"} /\ total_results < MAX_RESULTS) =>
        /\ total_pages * PAGE_SIZE >= total_results
        /\ (total_pages - 1) * PAGE_SIZE < total_results
        /\ Len(page_requests) <= total_pages
        /\ \A p \in 1..Len(page_requests) : page_requests[p] = p
        /\ (pc = "get_api_key" => Len(page_requests) = total_pages)
        /\ (pc = "get_api_key" /\ total_results = 250 => Len(page_requests) = 3)
        /\ (pc = "get_api_key" /\ total_results = 200 => Len(page_requests) = 2)
        /\ (pc = "get_api_key" /\ total_results = 0 => Len(page_requests) = 0)

C4_ThreePagesFor250 ==
    /\ pc = "get_api_key"
    /\ total_results = 250
    /\ total_pages = 3
    /\ page_requests = <<1, 2, 3>>

\* From page p on, with `before' urls collected from the pages before it: the
\* k-th anchor of a page is the k-th url after those of the pages before it, and
\* nothing follows the urls of the last page.
RECURSIVE PagesInOrderFrom(_, _)
PagesInOrderFrom(p, before) ==
    IF p > total_pages THEN Len(listing_urls) = before
    ELSE /\ before + Len(ServedAnchors(site, p)) <= Len(listing_urls)
         /\ \A k \in 1..Len(ServedAnchors(site, p)) :
               listing_urls[before + k] = ServedAnchors(site, p)[k].path
         /\ PagesInOrderFrom(p + 1, before + Len(ServedAnchors(site, p)))

Occurrences(seq, x) == Cardinality({k \in 1..Len(seq) : seq[k] = x})

\* How often a listing path is shown on the pages 1 to n.
RECURSIVE OccurrencesOnPages(_, _)
OccurrencesOnPages(path, n) ==
    IF n = 0 THEN 0
    ELSE OccurrencesOnPages(path, n - 1)
         + Cardinality({k \in 1..Len(ServedAnchors(site, n)) :
                           ServedAnchors(site, n)[k].path = path})

\* C5: listing url order.  The final listing_urls is the concatenation, in
\* ascending page number from 1 to total_pages, of each page's listing anchors in
\* the order they appear on it: the k-th anchor of page p is found right after all
\* the anchors of the pages before p and the k - 1 before it on p, and a url is in
\* the result as often as it is on the pages, with no de-duplication.
C5_ListingUrlOrder ==
    pc = "get_api_key" =>
        /\ PagesInOrderFrom(1, 0)
        /\ \A a \in Anchors :
              Occurrences(listing_urls, a.path) = OccurrencesOnPages(a.path, total_pages)

\* Three pages were collected; the first shows a listing twice and the second
\* shows other listings than the first, one of them shown on the first as well.
C5_DuplicatesAcrossPages ==
    /\ pc = "get_api_key"
    /\ total_pages = 3
    /\ Len(site.pages[1]) >= 2
    /\ site.pages[1][1] = site.pages[1][2]
    /\ Len(site.pages[2]) >= 2
    /\ site.pages[2][1] # site.pages[1][1]
    /\ site.pages[2][2] = site.pages[1][1]
    /\ Len(listing_urls) = 2 * Len(site.pages[1]) + Len(site.pages[2])

-----------------------------------------------------------------------------
(* Properties of the listing detail extractor *)

\* A listing none of whose parts fails: the price-history API answers, every
\* price label has a number, every floorplan image downloads and is read, and
\* the main details have the price.
NothingFails(d) ==
    /\ d.response.status = "ok"
    /\ (d.response.priceHistory # None =>
          \A k \in 1..Len(DataRecords(d.response.priceHistory[1])) :
              DataRecords(d.response.priceHistory[1])[k].price # Label_POA)
    /\ (d.floorPlan # None =>
          \A k \in 1..Len(d.floorPlan[1]) :
              d.floorPlan[1][k].download = "ok" /\ d.floorPlan[1][k].ocr = "ok")
    /\ \E k \in 1..Len(d.adTargeting) : d.adTargeting[k][1] = "price"

\* C7: missing data is not an error.  For a listing whose page and embedded JSON
\* load and none of whose parts fails, whatever is missing (no floorplan image, no
\* price history, an empty points-of-interest list, no OCR match), extract_all
\* does not raise and its record has all the other fields.
C7_MissingDataIsNotAnError ==
    (property_data_series # Pending /\ listing_page.page = "ok"
        /\ NothingFails(listing_page.details)) =>
        /\ property_data_series.exc = "none"
        /\ {"listingId", "price", "detailedDescription", "latitude", "longitude",
            "total_sq_footage"} \subseteq SeriesLabels(property_data_series.val)

\* The measurements of the floorplan images of a listing that are numbers above
\* zero.
PositiveMeasurements(d) ==
    IF d.floorPlan = None THEN {}
    ELSE {m \in {extract_total_sq_footage_from_floorplan(d.floorPlan[1][k]).val :
                     k \in 1..Len(d.floorPlan[1])} : ~IsNaN(m) /\ m.n > 0}

\* price = pounds_per_sq_foot * total_sq_footage, in whole numbers.
IsPricePerSqFoot(pounds, price, sq_feet) ==
    /\ pounds.d # 0
    /\ pounds.n * sq_feet.n * price.d = price.n * pounds.d * sq_feet.d

\* C11: price per unit area.  In every record extract_all returns,
\* pounds_per_sq_foot is present if and only if total_sq_footage is present and
\* not NaN; it then is the price of the main details divided by total_sq_footage,
\* which is never zero: total_sq_footage is the greatest of the floorplans'
\* measurements above zero, and NaN when there is none.
C11_PoundsPerSqFoot ==
    (property_data_series # Pending /\ property_data_series.exc = "none") =>
        /\ "total_sq_footage" \in SeriesLabels(property_data_series.val)
        /\ ("pounds_per_sq_foot" \in SeriesLabels(property_data_series.val))
              <=> ~IsNaN(SeriesGet(property_data_series.val, "total_sq_footage"))
        /\ IsNaN(SeriesGet(property_data_series.val, "total_sq_footage"))
              <=> (PositiveMeasurements(listing_page.details) = {})
        /\ ("pounds_per_sq_foot" \in SeriesLabels(property_data_series.val)) =>
              /\ SeriesGet(property_data_series.val, "total_sq_footage").n > 0
              /\ SeriesGet(property_data_series.val, "total_sq_footage").d > 0
              /\ SeriesGet(property_data_series.val, "total_sq_footage")
                    \in PositiveMeasurements(listing_page.details)
              /\ \A m \in PositiveMeasurements(listing_page.details) :
                    ~RatLess(SeriesGet(property_data_series.val, "total_sq_footage"), m)
              /\ IsPricePerSqFoot(SeriesGet(property_data_series.val, "pounds_per_sq_foot"),
                                  SeriesGet(listing_page.details.adTargeting, "price"),
                                  SeriesGet(property_data_series.val, "total_sq_footage"))

\* A record with pounds_per_sq_foot of a listing with two floorplans, one of them
\* measuring zero.
C11_ZeroMeasurementDiscarded ==
    /\ property_data_series # Pending
    /\ property_data_series.exc = "none"
    /\ "pounds_per_sq_foot" \in SeriesLabels(property_data_series.val)
    /\ Len(listing_page.details.floorPlan[1]) = 2
    /\ listing_page.details.floorPlan[1][1] = TextImage(<<"0", " ", "s", "q", " ", "f", "t">>)
    /\ SeriesGet(property_data_series.val, "pounds_per_sq_foot") = [n |-> 100000, d |-> 3]

-----------------------------------------------------------------------------
(* Properties of the floorplan measurement extractor *)

\* C8: the floorplan extractor never raises.  It returns NaN, the "not available"
\* measurement, when the image download fails, when the OCR step fails and when
\* the OCR text has no square-footage match, and a number otherwise.
C8_FloorplanNeverRaises ==
    sq_footage # Pending =>
        /\ sq_footage.exc = "none"
        /\ IsNaN(sq_footage.val) <=>
              \/ floorplan.download # "ok"
              \/ floorplan.ocr # "ok"
              \/ FindAllSqFeet(Lower(floorplan.text), 1) = <<>>

-----------------------------------------------------------------------------
(* Properties of the text-numeric extractor *)

\* C9: the text-numeric extractor is total.  For every text numbers_from_string
\* returns without raising, a token such as "1.2.3" or "3..4" being skipped, and
\* "1,234 and 56.7" gives [1234.0, 56.7].
C9_NumbersFromStringIsTotal ==
    float_numbers # Pending =>
        /\ float_numbers.exc = "none"
        /\ (~ \E k \in 1..Len(inp_str) : inp_str[k] \in Digits) => float_numbers.val = <<>>
        /\ inp_str = Str_1234_and_567 =>
              float_numbers.val = <<[n |-> 1234, d |-> 1], [n |-> 567, d |-> 10]>>

-----------------------------------------------------------------------------
(* Properties of the price-history summary *)

\* The listing_change rows of the sorted frame.
ListingChangeRows(out_df) ==
    SelectSeq(out_df, LAMBDA r : r.price_change_type = "listing_change")

\* The count of the consecutive pairs of a sequence.
ConsecutivePairs(rows) == IF rows = <<>> THEN 0 ELSE Len(rows) - 1

\* The relative change of each consecutive pair of prices, none of them zero.
ChangesOfPairs(rows) ==
    [k \in 1..ConsecutivePairs(rows) |->
        Rat(rows[k + 1].price.n * rows[k].price.d - rows[k].price.n * rows[k + 1].price.d,
            rows[k].price.n * rows[k + 1].price.d)]

\* last_sold 1,000 on day 1, listed at 1,000 on day 2 and at 1,100 on day 3.
OneRiseOfOneTenth ==
    [status |-> "ok", priceHistory |->
        Some([firstPublished |-> Some([date |-> 2, priceLabel |-> Label_1000]),
              lastSale |-> Some([date |-> 1, priceLabel |-> Label_1000]),
              priceChanges |-> Some(<<[date |-> 3, priceLabel |-> Label_1100]>>)])]

SummaryBoundsChanges(summary, changes) ==
    /\ SeriesGet(summary, "max_pct_per_price_change") \in {changes[k] : k \in 1..Len(changes)}
    /\ SeriesGet(summary, "min_pct_per_price_change") \in {changes[k] : k \in 1..Len(changes)}
    /\ \A k \in 1..Len(changes) :
          /\ ~RatLess(SeriesGet(summary, "max_pct_per_price_change"), changes[k])
          /\ ~RatLess(changes[k], SeriesGet(summary, "min_pct_per_price_change"))
    /\ RatEq(SeriesGet(summary, "avg_pct_per_price_change"),
             MeanOf(RatSum(changes), Len(changes)))

\* C10: price-history summarisation.  In summarised mode the frame the summary is
\* computed from is in chronological order, number_of_price_changes is the number
\* of consecutive pairs of its listing_change entries (last_sold entries taking no
\* part), avg, max and min are the mean, the greatest and the least of the
\* percentage changes of these pairs, and first_listed is the firstPublished date
\* when there is one and null otherwise.
C10_PriceHistorySummary ==
    (history.exc = "none" /\ summarised /\ history.out_df # <<>>) =>
        /\ \A i, j \in 1..Len(history.out_df) :
              i < j => history.out_df[i].date <= history.out_df[j].date
        /\ SeriesGet(history.val, "number_of_price_changes")
              = ConsecutivePairs(ListingChangeRows(history.out_df))
        /\ SeriesGet(history.val, "first_listed")
              = (IF price_history.priceHistory[1].firstPublished # None
                 THEN Some(price_history.priceHistory[1].firstPublished[1].date)
                 ELSE None)
        /\ (price_history = OneRiseOfOneTenth =>
              /\ SeriesGet(history.val, "number_of_price_changes") = 1
              /\ SeriesGet(history.val, "avg_pct_per_price_change") = [n |-> 1, d |-> 10])
        /\ (ConsecutivePairs(ListingChangeRows(history.out_df)) >= 1 =>
              SummaryBoundsChanges(history.val,
                                   ChangesOfPairs(ListingChangeRows(history.out_df))))

=============================================================================
